---- MODULE Spec2Model ----
(***************************************************************************)
(* GameCriticizer (src/game/core/self_game/criticizer.py): the critique    *)
(* step of the self-game loop.                                             *)
(*                                                                         *)
(* Scores are held in tenths of a point, so 7.0 is 70 and 10.0 is 100.     *)
(* The satisfaction score is a mean, so it is held in units of             *)
(* 1/(10*Scale) of a point, where every list length divides Scale.         *)
(* The dimension labels and the persona keys of the source are Chinese     *)
(* strings; the model writes them with the ASCII names of the enumeration  *)
(* members and of the personas.                                            *)
(* A response text is a sequence of lexical tokens: the JSON punctuation,  *)
(* string and number literals, whitespace, prose that is no JSON, and the  *)
(* two code-fence markers.                                                 *)
(***************************************************************************)
EXTENDS Integers, Sequences, FiniteSets, TLC

VARIABLES
    naga_conversation,   \* "None" or "conv": the text-generation collaborator
    current_iteration,   \* self.current_iteration
    critique_history,    \* self.critique_history
    calls,               \* the critique_output coroutines, by call id
    returned,            \* the results handed back to callers, in order of return
    cleared,             \* the call ids started before the most recent clear_history
    batch,               \* the batch_critique coroutine
    norm,                \* the Score Normalizer applied to one text
    sat                  \* the Satisfaction Estimator applied to one input

vars == <<naga_conversation, current_iteration, critique_history, calls,
          returned, cleared, batch, norm, sat>>

orchVars == <<naga_conversation, current_iteration, critique_history, calls,
              returned, cleared, batch>>

(***************************************************************************)
(* Bounds of the model.                                                    *)
(***************************************************************************)
MaxCalls == 2
MaxEntries == 2
MaxScores == 2

(***************************************************************************)
(* Program constants, in tenths of a point.                                *)
(***************************************************************************)
DefaultScore == 70
ErrorScore == 50
BaseSatisfaction == 70
MaxSatisfaction == 100
MinSatisfaction == 0

(***************************************************************************)
(* CriticDimension: the six members, in declaration order.                 *)
(***************************************************************************)
CriticDimension ==
    <<"innovation", "logic", "completeness", "feasibility", "quality", "relevance">>

DimensionValues == {CriticDimension[i] : i \in 1..Len(CriticDimension)}

(***************************************************************************)
(* A local variable that the code assigns once and reads many times is a   *)
(* variable bound over a singleton set, so that its value is computed      *)
(* once; The takes the value of the expression built from it.              *)
(***************************************************************************)
The(S) == CHOOSE e \in S : TRUE

(***************************************************************************)
(* Lexical tokens of a response text.                                      *)
(***************************************************************************)
Tok(k) == [k |-> k, s |-> "", n |-> 0]
Str(s) == [k |-> "str", s |-> s, n |-> 0]
Num(n) == [k |-> "num", s |-> "", n |-> n]

LB == Tok("{")
RB == Tok("}")
LK == Tok("[")
RK == Tok("]")
COMMA == Tok(",")
COLON == Tok(":")
NULL == Tok("null")
WS == Tok("ws")
TXT == Tok("txt")
FENCEJSON == Tok("fence_json")
FENCE == Tok("fence")

(***************************************************************************)
(* JSON values as json.loads builds them.  An object keeps its members in  *)
(* text order; a lookup takes the last member of the key, as a dict does.  *)
(***************************************************************************)
JStr(s) == [k |-> "str", s |-> s, n |-> 0, el |-> <<>>]
JNum(n) == [k |-> "num", s |-> "", n |-> n, el |-> <<>>]
JNull == [k |-> "null", s |-> "", n |-> 0, el |-> <<>>]
JArr(el) == [k |-> "arr", s |-> "", n |-> 0, el |-> el]
JObj(members) == [k |-> "obj", s |-> "", n |-> 0, el |-> members]
Member(key, val) == [key |-> key, val |-> val]

HasKey(obj, key) == \E i \in 1..Len(obj.el) : obj.el[i].key = key

GetKey(obj, key) ==
    LET idx == {i \in 1..Len(obj.el) : obj.el[i].key = key}
        last == CHOOSE i \in idx : \A j \in idx : j <= i
    IN obj.el[last].val

ParseFail == [ok |-> FALSE, val |-> JNull, next |-> 0]
ParseOk(v, next) == [ok |-> TRUE, val |-> v, next |-> next]

RECURSIVE SkipWs(_, _)
SkipWs(toks, i) ==
    IF i <= Len(toks) /\ toks[i].k = "ws" THEN SkipWs(toks, i + 1) ELSE i

KindAt(toks, i) == IF i >= 1 /\ i <= Len(toks) THEN toks[i].k ELSE "eof"

RECURSIVE ParseValue(_, _)
RECURSIVE ParseMembers(_, _, _)
RECURSIVE ParseElements(_, _, _)

\* One JSON value starting at or after position i.
ParseValue(toks, i) ==
    LET j == SkipWs(toks, i)
        kind == KindAt(toks, j)
    IN CASE kind = "str" -> ParseOk(JStr(toks[j].s), j + 1)
         [] kind = "num" -> ParseOk(JNum(toks[j].n), j + 1)
         [] kind = "null" -> ParseOk(JNull, j + 1)
         [] kind = "{" ->
              LET j2 == SkipWs(toks, j + 1)
              IN IF KindAt(toks, j2) = "}"
                 THEN ParseOk(JObj(<<>>), j2 + 1)
                 ELSE ParseMembers(toks, j2, <<>>)
         [] kind = "[" ->
              LET j2 == SkipWs(toks, j + 1)
              IN IF KindAt(toks, j2) = "]"
                 THEN ParseOk(JArr(<<>>), j2 + 1)
                 ELSE ParseElements(toks, j2, <<>>)
         [] OTHER -> ParseFail

\* The members of an object after its "{", at a position where a key is due.
ParseMembers(toks, i, acc) ==
    LET j == SkipWs(toks, i)
        c == SkipWs(toks, j + 1)
    IN IF KindAt(toks, j) # "str" \/ KindAt(toks, c) # ":"
       THEN ParseFail
       ELSE LET v == ParseValue(toks, c + 1)
                e == SkipWs(toks, v.next)
                acc2 == Append(acc, Member(toks[j].s, v.val))
            IN IF ~v.ok THEN ParseFail
               ELSE IF KindAt(toks, e) = "," THEN ParseMembers(toks, e + 1, acc2)
               ELSE IF KindAt(toks, e) = "}" THEN ParseOk(JObj(acc2), e + 1)
               ELSE ParseFail

\* The elements of an array after its "[", at a position where a value is due.
ParseElements(toks, i, acc) ==
    LET v == ParseValue(toks, i)
        e == SkipWs(toks, v.next)
        acc2 == Append(acc, v.val)
    IN IF ~v.ok THEN ParseFail
       ELSE IF KindAt(toks, e) = "," THEN ParseElements(toks, e + 1, acc2)
       ELSE IF KindAt(toks, e) = "]" THEN ParseOk(JArr(acc2), e + 1)
       ELSE ParseFail

\* json.loads: one value, and nothing but whitespace after it.
JsonLoads(toks) ==
    LET v == ParseValue(toks, 1)
    IN IF v.ok /\ SkipWs(toks, v.next) > Len(toks) THEN v ELSE ParseFail

(***************************************************************************)
(* Text operations of _parse_critique_result.                              *)
(***************************************************************************)
RECURSIVE RSkipWs(_, _)
RSkipWs(toks, i) ==
    IF i >= 1 /\ toks[i].k = "ws" THEN RSkipWs(toks, i - 1) ELSE i

\* str.strip()
Strip(toks) ==
    LET a == SkipWs(toks, 1)
        b == RSkipWs(toks, Len(toks))
    IN IF a > b THEN <<>> ELSE SubSeq(toks, a, b)

\* A closing fence is also the head of an opening json fence.
IsFenceEnd(toks, i) == KindAt(toks, i) \in {"fence", "fence_json"}

\* re.search of line 368 (json fence, whitespace, a group from "{" to the
\* nearest "}" that whitespace and a fence follow): the leftmost start, and
\* from it the shortest group; group(1).
FenceEnds(toks, start) ==
    {e \in (SkipWs(toks, start + 1) + 1)..Len(toks) :
        toks[e].k = "}" /\ IsFenceEnd(toks, SkipWs(toks, e + 1))}

FenceStarts(toks) ==
    {i \in 1..Len(toks) :
        /\ toks[i].k = "fence_json"
        /\ KindAt(toks, SkipWs(toks, i + 1)) = "{"
        /\ FenceEnds(toks, i) # {}}

FenceSearch(toks) ==
    LET starts == FenceStarts(toks)
    IN IF starts = {} THEN [found |-> FALSE, group |-> <<>>]
       ELSE LET start == CHOOSE a \in starts : \A b \in starts : a <= b
                ends == FenceEnds(toks, start)
                end == CHOOSE a \in ends : \A b \in ends : a <= b
            IN [found |-> TRUE,
                group |-> SubSeq(toks, SkipWs(toks, start + 1), end)]

\* str.find('{') and str.rfind('}') + 1, as 0-based offsets.
Find(toks, kind) ==
    LET idx == {i \in 1..Len(toks) : toks[i].k = kind}
    IN IF idx = {} THEN -1 ELSE (CHOOSE i \in idx : \A j \in idx : i <= j) - 1

RFind(toks, kind) ==
    LET idx == {i \in 1..Len(toks) : toks[i].k = kind}
    IN IF idx = {} THEN -1 ELSE (CHOOSE i \in idx : \A j \in idx : j <= i) - 1

\* The extraction of the JSON part (lines 368-379).
ExtractJson(critique_result) ==
    LET json_match == FenceSearch(critique_result)
        json_str == Strip(critique_result)
        start == Find(json_str, "{")
        end == RFind(json_str, "}") + 1
    IN IF json_match.found THEN json_match.group
       ELSE IF KindAt(json_str, 1) # "{" /\ start # -1 /\ end > start
            THEN SubSeq(json_str, start + 1, end)
            ELSE json_str

(***************************************************************************)
(* float(x) of a JSON value: a number, or a string that spells one;        *)
(* ValueError for another string, TypeError for null, a list or a dict.    *)
(***************************************************************************)
NumericStrings == {"8.5", "15"}

StrToNum(s) == IF s = "8.5" THEN 85 ELSE 150

Float(v) ==
    CASE v.k = "num" -> [exc |-> "none", n |-> v.n]
      [] v.k = "str" /\ v.s \in NumericStrings -> [exc |-> "none", n |-> StrToNum(v.s)]
      [] v.k = "str" -> [exc |-> "ValueError", n |-> 0]
      [] OTHER -> [exc |-> "TypeError", n |-> 0]

CriticScore(dimension, score, reasoning, suggestions) ==
    [dimension |-> dimension, score |-> score,
     reasoning |-> reasoning, suggestions |-> suggestions]

\* dict.get(key, default)
GetOr(obj, key, default) == IF HasKey(obj, key) THEN GetKey(obj, key) ELSE default

\* The body of the loop over data['dimension_scores'] (lines 387-398):
\* "none" appends the score, KeyError and ValueError skip the entry, any
\* other exception leaves the loop for the outer handler.
ParseEntry(score_data) ==
    LET none == CriticScore("", 0, JNull, JNull)
    IN IF score_data.k # "obj" THEN [exc |-> "TypeError", score |-> none]
       ELSE IF ~HasKey(score_data, "dimension") THEN [exc |-> "KeyError", score |-> none]
       ELSE LET d == GetKey(score_data, "dimension")
            IN IF ~(d.k = "str" /\ d.s \in DimensionValues)
               THEN [exc |-> "ValueError", score |-> none]
               ELSE IF ~HasKey(score_data, "score")
                    THEN [exc |-> "KeyError", score |-> none]
                    ELSE LET f == Float(GetKey(score_data, "score"))
                         IN [exc |-> f.exc,
                             score |-> CriticScore(d.s, f.n,
                                          GetOr(score_data, "reasoning", JStr("")),
                                          GetOr(score_data, "suggestions", JArr(<<>>)))]

\* What a for loop walks over: the elements of a list, the keys of a dict,
\* the characters of a string; a number or null is not iterable.
Iterate(v) ==
    CASE v.k = "arr" -> [exc |-> "none", el |-> v.el]
      [] v.k = "obj" -> [exc |-> "none", el |-> [i \in 1..Len(v.el) |-> JStr(v.el[i].key)]]
      [] v.k = "str" -> [exc |-> "none", el |-> IF v.s = "" THEN <<>> ELSE <<JStr("c")>>]
      [] OTHER -> [exc |-> "TypeError", el |-> <<>>]

RECURSIVE ParseScores(_, _, _)
ParseScores(el, i, acc) ==
    IF i > Len(el) THEN [exc |-> "none", scores |-> acc]
    ELSE LET e == ParseEntry(el[i])
         IN IF e.exc = "none" THEN ParseScores(el, i + 1, Append(acc, e.score))
            ELSE IF e.exc \in {"ValueError", "KeyError"} THEN ParseScores(el, i + 1, acc)
            ELSE [exc |-> e.exc, scores |-> <<>>]

CritiqueResult(dimension_scores, overall_score, summary_critique, suggestions) ==
    [dimension_scores |-> dimension_scores, overall_score |-> overall_score,
     summary_critique |-> summary_critique, suggestions |-> suggestions]

_get_default_critique_result ==
    CritiqueResult(
        [i \in 1..Len(CriticDimension) |->
            CriticScore(CriticDimension[i], DefaultScore, JStr("default_reasoning"),
                        JArr(<<JStr("default_suggestion")>>))],
        DefaultScore,
        JStr("default_summary"),
        JArr(<<JStr("reanalyse"), JStr("improve_quality"), JStr("more_professional")>>))

\* Lines 381-405 once the JSON part is extracted; "raised" stands for any
\* exception that reaches the handler of line 407.
ParseData(json_str) ==
    LET raised == [raised |-> TRUE, result |-> _get_default_critique_result]
    IN The({
        IF ~loaded.ok THEN raised
        ELSE IF loaded.val.k # "obj" THEN raised
        ELSE The({
            The({
                IF ds.exc # "none" \/ overall.exc # "none" THEN raised
                ELSE [raised |-> FALSE,
                      result |-> CritiqueResult(ds.scores, overall.n,
                                    GetOr(loaded.val, "summary_critique",
                                          JStr("parse_failed")),
                                    GetOr(loaded.val, "improvement_suggestions",
                                          JArr(<<>>)))] :
                ds \in {IF it.exc = "none" THEN ParseScores(it.el, 1, <<>>)
                        ELSE [exc |-> it.exc, scores |-> <<>>]},
                overall \in {Float(GetOr(loaded.val, "overall_score",
                                         JNum(DefaultScore)))}}) :
            it \in {IF HasKey(loaded.val, "dimension_scores")
                    THEN Iterate(GetKey(loaded.val, "dimension_scores"))
                    ELSE [exc |-> "none", el |-> <<>>]}}) :
        loaded \in {JsonLoads(json_str)}})

_parse_critique_result(critique_result) ==
    The({The({IF r.raised THEN _get_default_critique_result ELSE r.result :
                r \in {ParseData(json_str)}}) :
            json_str \in {ExtractJson(critique_result)}})

(***************************************************************************)
(* Response texts.  Serialize writes a JSON value as json.dumps would;     *)
(* Render puts the text of a payload in one of the forms an evaluator's    *)
(* response takes.                                                         *)
(***************************************************************************)
RECURSIVE Serialize(_)
RECURSIVE SerializeAll(_, _, _)

Serialize(v) ==
    CASE v.k = "str" -> <<Str(v.s)>>
      [] v.k = "num" -> <<Num(v.n)>>
      [] v.k = "null" -> <<NULL>>
      [] v.k = "arr" -> <<LK>> \o SerializeAll(v.el, 1, FALSE) \o <<RK>>
      [] v.k = "obj" -> <<LB>> \o SerializeAll(v.el, 1, TRUE) \o <<RB>>

SerializeAll(el, i, members) ==
    IF i > Len(el) THEN <<>>
    ELSE (IF i > 1 THEN <<COMMA, WS>> ELSE <<>>)
         \o (IF members THEN <<Str(el[i].key), COLON, WS>> \o Serialize(el[i].val)
             ELSE Serialize(el[i]))
         \o SerializeAll(el, i + 1, members)

WellFormedForms == {"raw", "padded", "fenced", "fenced_in_prose", "plain_fence", "after_prose"}

MalformedForms ==
    {"truncated_1", "truncated_2", "truncated_4", "no_open_brace", "no_close_brace",
     "no_braces", "prose", "empty", "fenced_truncated", "trailing_prose"}

Forms == WellFormedForms \cup MalformedForms

Render(form, payload) ==
    LET P == Serialize(payload)
        n == Len(P)
        cut(k) == IF n > k THEN SubSeq(P, 1, n - k) ELSE <<>>
    IN CASE form = "raw" -> P
         [] form = "padded" -> <<WS>> \o P \o <<WS, WS>>
         [] form = "fenced" -> <<FENCEJSON, WS>> \o P \o <<WS, FENCE>>
         [] form = "fenced_in_prose" -> <<TXT, WS, FENCEJSON>> \o P \o <<FENCE, WS, TXT>>
         [] form = "plain_fence" -> <<FENCE, WS>> \o P \o <<WS, FENCE>>
         [] form = "after_prose" -> <<TXT, WS>> \o P
         [] form = "truncated_1" -> cut(1)
         [] form = "truncated_2" -> cut(2)
         [] form = "truncated_4" -> cut(4)
         [] form = "no_open_brace" -> Tail(P)
         [] form = "no_close_brace" -> <<TXT, WS>> \o cut(1)
         [] form = "no_braces" -> Tail(cut(1))
         [] form = "prose" -> <<TXT, WS, TXT>>
         [] form = "empty" -> <<WS>>
         [] form = "fenced_truncated" -> <<FENCEJSON, WS>> \o cut(1) \o <<WS, FENCE>>
         [] form = "trailing_prose" -> P \o <<WS, TXT>>

Entry(dimension, score) ==
    JObj(<<Member("dimension", dimension), Member("score", score)>>)

\* The entries a dimension_scores list is drawn from.
Entries ==
    { JObj(<<Member("dimension", JStr("quality")), Member("score", JNum(85)),
             Member("reasoning", JStr("r")), Member("suggestions", JArr(<<JStr("s")>>))>>),
      Entry(JStr("logic"), JNum(60)),
      Entry(JStr("quality"), JNum(150)),
      Entry(JStr("feasibility"), JNum(-30)),
      Entry(JStr("relevance"), JStr("8.5")),
      Entry(JStr("style"), JNum(50)),
      Entry(JStr("style"), JNull),
      Entry(JStr("logic"), JStr("abc")),
      Entry(JStr("innovation"), JNull),
      JObj(<<Member("dimension", JStr("logic"))>>),
      JObj(<<Member("score", JNum(70))>>),
      JNum(3) }

SeqsUpTo(S, n) == UNION {[1..k -> S] : k \in 0..n}

\* The values of the dimension_scores member; "absent" leaves the member out.
Absent == [k |-> "absent", s |-> "", n |-> 0, el |-> <<>>]

DimensionScoresValues(max) ==
    {JArr(el) : el \in SeqsUpTo(Entries, max)}
        \cup {Absent, JNum(5), JNull, JStr(""), JStr("none"), JObj(<<>>),
              JObj(<<Member("quality", JNum(85))>>)}

OverallScoreValues == {Absent, JNum(76), JNum(150), JNum(-10), JStr("8.5"), JStr("abc"), JNull}

Payload(ds, overall, narrative) ==
    JObj((IF ds = Absent THEN <<>> ELSE <<Member("dimension_scores", ds)>>)
         \o (IF overall = Absent THEN <<>> ELSE <<Member("overall_score", overall)>>)
         \o (IF narrative
             THEN <<Member("summary_critique", JStr("summary")),
                    Member("improvement_suggestions", JArr(<<JStr("s1"), JStr("s2")>>))>>
             ELSE <<>>))

\* Every form of the payloads without the other fields, the raw and fenced
\* forms of every payload, and the texts that hold a JSON value but no object.
NormInputs(max) ==
    {[form |-> f, payload |-> Payload(ds, Absent, FALSE)] :
        f \in Forms, ds \in DimensionScoresValues(max)}
    \cup {[form |-> f, payload |-> Payload(ds, o, n)] :
            f \in {"raw", "fenced"}, ds \in DimensionScoresValues(max),
            o \in OverallScoreValues, n \in BOOLEAN}
    \cup {[form |-> f, payload |-> v] :
            f \in {"raw", "fenced", "after_prose"},
            v \in {JNum(7), JNull, JStr("dimension_scores"), JArr(<<>>),
                   JArr(<<JStr("dimension_scores")>>)}}

(***************************************************************************)
(* The Score Normalizer on its own: one text, then its result.             *)
(***************************************************************************)
Idle == [pc |-> "off"]

NormInit ==
    \E in \in NormInputs(MaxEntries) :
        norm = [pc |-> "input", form |-> in.form, payload |-> in.payload,
                text |-> Render(in.form, in.payload),
                out |-> _get_default_critique_result]

Parse ==
    /\ norm.pc = "input"
    /\ norm' = [norm EXCEPT !.pc = "parsed", !.out = _parse_critique_result(norm.text)]

(***************************************************************************)
(* The Satisfaction Estimator.  A satisfaction score is in units of        *)
(* 1/Scale of a tenth of a point, and Scale is a multiple of every length  *)
(* a score list takes, so that the mean of the improvements is exact.      *)
(***************************************************************************)
RECURSIVE Gcd(_, _)
Gcd(a, b) == IF b = 0 THEN a ELSE Gcd(b, a % b)

RECURSIVE LcmUpTo(_)
LcmUpTo(n) == IF n <= 1 THEN 1 ELSE (LcmUpTo(n - 1) * n) \div Gcd(LcmUpTo(n - 1), n)

Max2(a, b) == IF a >= b THEN a ELSE b
Min2(a, b) == IF a <= b THEN a ELSE b

Scale == LcmUpTo(Max2(Len(CriticDimension), Max2(MaxEntries, MaxScores)))

RECURSIVE Sum(_, _)
Sum(seq, i) == IF i > Len(seq) THEN 0 ELSE seq[i] + Sum(seq, i + 1)

\* The inner loop of lines 446-450: the first score of the dimension in the
\* last critique, if there is one.
FirstOfDimension(dimension_scores, dimension) ==
    LET idx == {i \in 1..Len(dimension_scores) :
                    dimension_scores[i].dimension = dimension}
    IN IF idx = {} THEN <<>>
       ELSE <<dimension_scores[CHOOSE i \in idx : \A j \in idx : i <= j].score>>

RECURSIVE Improvements(_, _, _)
Improvements(last_critique, current_scores, i) ==
    IF i > Len(current_scores) THEN <<>>
    ELSE LET last == FirstOfDimension(last_critique.dimension_scores,
                                      current_scores[i].dimension)
         IN (IF last = <<>> THEN <<>> ELSE <<current_scores[i].score - last[1]>>)
            \o Improvements(last_critique, current_scores, i + 1)

\* previous_critiques: None, or a list of CriticOutput.
NoCritiques == [given |-> FALSE, list |-> <<>>]
Critiques(list) == [given |-> TRUE, list |-> list]

\* The estimate taken against the first critique of the list, not the last.
_calculate_satisfaction_score_first(previous_critiques, current_scores) ==
    IF ~previous_critiques.given \/ previous_critiques.list = <<>>
       \/ current_scores = <<>>
    THEN BaseSatisfaction * Scale
    ELSE LET improvements == Improvements(previous_critiques.list[1], current_scores, 1)
         IN IF improvements # <<>>
            THEN Max2(MinSatisfaction * Scale,
                      Min2(MaxSatisfaction * Scale,
                           BaseSatisfaction * Scale
                               + (Sum(improvements, 1) * Scale) \div Len(improvements)))
            ELSE BaseSatisfaction * Scale

\* The handler of line 461 is not modelled: nothing in lines 440-459 raises
\* on scores that are numbers.
_calculate_satisfaction_score(previous_critiques, current_scores) ==
    IF ~previous_critiques.given \/ previous_critiques.list = <<>>
       \/ current_scores = <<>>
    THEN BaseSatisfaction * Scale
    ELSE LET last_critique ==
                 previous_critiques.list[Len(previous_critiques.list)]
             improvements == Improvements(last_critique, current_scores, 1)
         IN IF improvements # <<>>
            THEN LET avg_improvement ==
                         (Sum(improvements, 1) * Scale) \div Len(improvements)
                     satisfaction == BaseSatisfaction * Scale + avg_improvement
                 IN Max2(MinSatisfaction * Scale,
                         Min2(MaxSatisfaction * Scale, satisfaction))
            ELSE BaseSatisfaction * Scale

(***************************************************************************)
(* CriticOutput and the collaborators' data.                               *)
(***************************************************************************)
CriticOutput(target_output_id, critic_agent_id, overall_score, satisfaction_score, dimension_scores, summary_critique, improvement_suggestions, iteration, metadata) ==
    [target_output_id |-> target_output_id, critic_agent_id |-> critic_agent_id,
     overall_score |-> overall_score, satisfaction_score |-> satisfaction_score,
     dimension_scores |-> dimension_scores, summary_critique |-> summary_critique,
     improvement_suggestions |-> improvement_suggestions,
     iteration |-> iteration, metadata |-> metadata]

\* dict.get on a metadata mapping
MetaGet(metadata, key, default) ==
    IF key \in DOMAIN metadata THEN metadata[key] ELSE default

Agent(agent_id, name, role) == [agent_id |-> agent_id, name |-> name, role |-> role]

Agents ==
    {Agent("a1", "senior_quality_analyst", "tech_review_lead"),
     Agent("a2", "bob", "critic")}

ActorOutput(agent_id) ==
    [agent_id |-> agent_id, iteration |-> 1, content_length |-> 5,
     agent_name |-> agent_id]

ActorOutputs == {ActorOutput(id) : id \in {"a1", "a2"}}

\* A task whose requirements are "objects" holds items that are no strings.
Tasks ==
    {[task_id |-> "t1", domain |-> "d", requirements |-> "strings"],
     [task_id |-> "t2", domain |-> "d", requirements |-> "objects"]}

\* The keys of mock_critiques in their order, and what the in operator of
\* line 340 finds in the names and roles above.
MockKeys == <<"quality_analyst", "tech_review", "product_eval">>

Contains(key, text) ==
    <<key, text>> \in {<<"quality_analyst", "senior_quality_analyst">>,
                       <<"tech_review", "tech_review_lead">>}

MockPayload(scores, overall) ==
    JObj(<<Member("dimension_scores",
                  JArr([i \in 1..Len(CriticDimension) |->
                          JObj(<<Member("dimension", JStr(CriticDimension[i])),
                                 Member("score", JNum(scores[i])),
                                 Member("reasoning", JStr("r")),
                                 Member("suggestions", JArr(<<JStr("s")>>))>>)])),
           Member("overall_score", JNum(overall)),
           Member("summary_critique", JStr("mock_summary")),
           Member("improvement_suggestions", JArr(<<JStr("m1"), JStr("m2")>>))>>)

MockCritiques(key) ==
    CASE key = "quality_analyst" -> MockPayload(<<75, 82, 68, 70, 78, 85>>, 76)
      [] key = "tech_review" -> MockPayload(<<65, 88, 72, 80, 75, 83>>, 77)
      [] key = "product_eval" -> MockPayload(<<80, 75, 69, 78, 73, 87>>, 77)
      [] OTHER -> MockPayload(<<70, 75, 68, 72, 73, 80>>, 73)

\* A fallback that ignores the persona of the evaluator.
_generate_mock_critique_default(critic_agent) ==
    Serialize(MockCritiques("default"))

_generate_mock_critique(critic_agent) ==
    LET hits == {i \in 1..Len(MockKeys) :
                    \/ Contains(MockKeys[i], critic_agent.name)
                    \/ Contains(MockKeys[i], critic_agent.role)}
    IN IF hits # {}
       THEN Serialize(MockCritiques(MockKeys[CHOOSE i \in hits : \A j \in hits : i <= j]))
       ELSE Serialize(MockCritiques("default"))

\* The prompt is text for the collaborator alone; what the model keeps of
\* lines 196-271 is whether the join of line 209 raises, and the critiques
\* of line 225.
_build_critique_prompt(actor_output, critic_agent, task, previous_critiques) ==
    [raised |-> task.requirements = "objects",
     history |-> Min2(2, Len(previous_critiques.list))]

\* What the collaborator did with one call: NoOutcome before it answers.
NoOutcome == [kind |-> "none", text |-> <<>>]
Returns(text) == [kind |-> "returns", text |-> text]
Raises == [kind |-> "raises", text |-> <<>>]

\* get_response called with no handler around it.
_call_llm_for_critique_no_fallback(conversation, outcome, critic_agent) ==
    IF conversation = "None"
    THEN [raised |-> FALSE, text |-> _generate_mock_critique(critic_agent)]
    ELSE IF outcome.kind = "raises"
         THEN [raised |-> TRUE, text |-> <<>>]
         ELSE [raised |-> FALSE, text |-> Strip(outcome.text)]

\* Lines 275-290 given what get_response did; no exception leaves it.
_call_llm_for_critique(conversation, outcome, critic_agent) ==
    IF conversation = "None"
    THEN [raised |-> FALSE, text |-> _generate_mock_critique(critic_agent)]
    ELSE IF outcome.kind = "raises"
         THEN [raised |-> FALSE, text |-> _generate_mock_critique(critic_agent)]
         ELSE [raised |-> FALSE, text |-> Strip(outcome.text)]

\* The result of lines 176-187.
ErrorOutput(actor_output, critic_agent, iteration) ==
    CriticOutput(<<actor_output.agent_id, actor_output.iteration>>,
                 critic_agent.agent_id, ErrorScore, ErrorScore * Scale, <<>>,
                 JStr("critique_failed"), JArr(<<JStr("retry")>>), iteration,
                 [error |-> TRUE, error_message |-> "exception"])

\* The result of lines 138-165.
NormalOutput(actor_output, critic_agent, task, previous_critiques, critique_result, iteration) ==
    The({CriticOutput(<<actor_output.agent_id, actor_output.iteration>>,
                      critic_agent.agent_id, parsed.overall_score,
                      _calculate_satisfaction_score(previous_critiques,
                                                    parsed.dimension_scores),
                      parsed.dimension_scores, parsed.summary_critique,
                      parsed.suggestions, iteration,
                      [target_agent_name |-> actor_output.agent_name,
                       critic_agent_name |-> critic_agent.name,
                       task_domain |-> task.domain,
                       has_previous_critiques |->
                           (previous_critiques.given
                                /\ Len(previous_critiques.list) > 0),
                       content_length |-> actor_output.content_length]) :
            parsed \in {_parse_critique_result(critique_result)}})

(***************************************************************************)
(* The Evaluation Orchestrator.  A critique_output coroutine runs from its *)
(* first line to the await of get_response in one step, and from the       *)
(* answer of get_response to its return in another; with no collaborator   *)
(* nothing suspends and the call is one step.                              *)
(***************************************************************************)
NoOutput == ErrorOutput(ActorOutput("none"), Agent("none", "", ""), 0)

Call(pc, actor_output, critic_agent, task, previous_critiques) ==
    [pc |-> pc, actor_output |-> actor_output, critic_agent |-> critic_agent,
     task |-> task, previous_critiques |-> previous_critiques,
     incremented |-> 0,        \* the counter as this call's increment left it
     llm |-> "none",           \* "absent", "returned" or "raised" once line 135 ran
     recorded |-> FALSE,       \* whether line 168 put the result in the ledger,
                               \* and no clear_history took it out since
     result |-> NoOutput]

\* The texts get_response answers with.
Responses ==
    {Render("fenced", Payload(JArr(<<Entry(JStr("quality"), JNum(150)),
                                      Entry(JStr("feasibility"), JNum(-30)),
                                      Entry(JStr("style"), JNum(50))>>),
                              JNum(150), FALSE)),
     Render("prose", JObj(<<>>))}

\* A call that has returned keeps its result and drops its arguments.
Ended(cl, llm, recorded, result) ==
    [cl EXCEPT !.pc = "done", !.llm = llm, !.recorded = recorded, !.result = result,
               !.actor_output = ActorOutput("none"),
               !.critic_agent = Agent("none", "", ""),
               !.previous_critiques = NoCritiques]

\* Lines 123-135 and, where nothing suspends, the rest of the call.
Begin(c, base) ==
    \E iteration \in {current_iteration + 1} :
    \E cl \in {[base[c] EXCEPT !.incremented = iteration]} :
    \E failed \in {ErrorOutput(cl.actor_output, cl.critic_agent, iteration)} :
       /\ current_iteration' = iteration
       /\ IF _build_critique_prompt(cl.actor_output, cl.critic_agent, cl.task,
                                     cl.previous_critiques).raised
          THEN /\ calls' = [base EXCEPT ![c] = Ended(cl, "none", FALSE, failed)]
               /\ returned' = Append(returned, c)
               /\ UNCHANGED critique_history
          ELSE IF naga_conversation = "None"
          THEN \E reply \in {_call_llm_for_critique(naga_conversation, NoOutcome,
                                                    cl.critic_agent)} :
               IF reply.raised
               THEN /\ calls' = [base EXCEPT ![c] = Ended(cl, "absent", FALSE, failed)]
                    /\ returned' = Append(returned, c)
                    /\ UNCHANGED critique_history
               ELSE \E output \in {NormalOutput(cl.actor_output, cl.critic_agent,
                                                cl.task, cl.previous_critiques,
                                                reply.text, iteration)} :
                    /\ calls' = [base EXCEPT ![c] = Ended(cl, "absent", TRUE, output)]
                    /\ critique_history' = Append(critique_history, output)
                    /\ returned' = Append(returned, c)
          ELSE /\ calls' = [base EXCEPT ![c] = [cl EXCEPT !.pc = "awaiting"]]
               /\ UNCHANGED <<critique_history, returned>>

\* A resumption that gives the result the counter as the call's own
\* increment left it.
Resume_with_own_iteration(c, outcome) ==
    /\ calls[c].pc = "awaiting"
    /\ \E cl \in {calls[c]} :
       \E reply \in {_call_llm_for_critique(naga_conversation, outcome,
                                            cl.critic_agent)} :
       \E llm \in {IF outcome.kind = "raises" THEN "raised" ELSE "returned"} :
          IF reply.raised
          THEN /\ calls' = [calls EXCEPT ![c] =
                               Ended(cl, llm, FALSE,
                                     ErrorOutput(cl.actor_output, cl.critic_agent,
                                                 cl.incremented))]
               /\ UNCHANGED critique_history
          ELSE \E output \in {NormalOutput(cl.actor_output, cl.critic_agent, cl.task,
                                           cl.previous_critiques, reply.text,
                                           cl.incremented)} :
               /\ calls' = [calls EXCEPT ![c] = Ended(cl, llm, TRUE, output)]
               /\ critique_history' = Append(critique_history, output)
    /\ returned' = Append(returned, c)
    /\ UNCHANGED <<naga_conversation, current_iteration, cleared, batch>>

\* Lines 135-171 from the answer of get_response on, or lines 173-187.
Resume(c, outcome) ==
    /\ calls[c].pc = "awaiting"
    /\ \E cl \in {calls[c]} :
       \E reply \in {_call_llm_for_critique(naga_conversation, outcome,
                                            cl.critic_agent)} :
       \E llm \in {IF outcome.kind = "raises" THEN "raised" ELSE "returned"} :
          IF reply.raised
          THEN /\ calls' = [calls EXCEPT ![c] =
                               Ended(cl, llm, FALSE,
                                     ErrorOutput(cl.actor_output, cl.critic_agent,
                                                 current_iteration))]
               /\ UNCHANGED critique_history
          ELSE \E output \in {NormalOutput(cl.actor_output, cl.critic_agent, cl.task,
                                           cl.previous_critiques, reply.text,
                                           current_iteration)} :
               /\ calls' = [calls EXCEPT ![c] = Ended(cl, llm, TRUE, output)]
               /\ critique_history' = Append(critique_history, output)
    /\ returned' = Append(returned, c)
    /\ UNCHANGED <<naga_conversation, current_iteration, cleared, batch>>

\* previous_critiques as a caller passes it: None, or the ledger so far.
PreviousCritiques == {NoCritiques, Critiques(critique_history)}

\* critique_output called on its own.
critique_output(actor_output, critic_agent, task, previous_critiques) ==
    /\ Len(calls) < MaxCalls
    /\ Begin(Len(calls) + 1,
             Append(calls, Call("new", actor_output, critic_agent, task,
                                previous_critiques)))
    /\ UNCHANGED <<naga_conversation, cleared, batch>>

LlmReturns(c, text) == Resume(c, Returns(text))

LlmRaises(c) == Resume(c, Raises)

\* clear_history
clear_history ==
    /\ critique_history' = <<>>
    /\ current_iteration' = 0
    /\ cleared' = {c \in 1..Len(calls) : calls[c].pc # "scheduled"}
    /\ calls' = [c \in 1..Len(calls) |-> [calls[c] EXCEPT !.recorded = FALSE]]
    /\ UNCHANGED <<naga_conversation, returned, batch>>

get_latest_critique ==
    IF critique_history # <<>> THEN <<critique_history[Len(critique_history)]>> ELSE <<>>

\* An average as the code divides it: the sum and the count; the literal 0
\* of lines 501-502 is Mean(0, 1).
Mean(sum, count) == [num |-> sum, den |-> count]

\* Line 509: the entries whose metadata holds no true error.
IsSuccessful(c) == ~MetaGet(c.metadata, "error", FALSE)

\* get_critique_statistics: the dict it returns, as a function of its keys.
\* Wall-clock times are not modelled: the sum of critique_time is "elapsed".
get_critique_statistics ==
    IF critique_history = <<>>
    THEN [total_critiques |-> 0,
          average_overall_score |-> Mean(0, 1),
          average_satisfaction_score |-> Mean(0, 1),
          current_iteration |-> current_iteration,
          api_available |-> (naga_conversation # "None")]
    ELSE The({[total_critiques |-> n,
               successful_critiques |-> Len(successful_critiques),
               failed_critiques |-> n - Len(successful_critiques),
               average_overall_score |->
                   Mean(Sum([i \in 1..n |-> critique_history[i].overall_score], 1), n),
               average_satisfaction_score |->
                   Mean(Sum([i \in 1..n |-> critique_history[i].satisfaction_score], 1), n),
               current_iteration |-> current_iteration,
               api_available |-> (naga_conversation # "None"),
               average_critique_time |-> Mean("elapsed", n)] :
              n \in {Len(critique_history)},
              successful_critiques \in {SelectSeq(critique_history, IsSuccessful)}})

(***************************************************************************)
(* The Batch Runner.  batch_critique builds its coroutines, and gather     *)
(* starts them as tasks in their order and hands back their results in     *)
(* that order once all have ended.                                         *)
(***************************************************************************)
MaxBatch == 2

\* Lines 473-480: the pairs a coroutine is made for, in their order.
RECURSIVE CritiquePairs(_, _, _, _)
CritiquePairs(actor_outputs, critic_agents, i, j) ==
    IF i > Len(actor_outputs) THEN <<>>
    ELSE IF j > Len(critic_agents) THEN CritiquePairs(actor_outputs, critic_agents, i + 1, 1)
    ELSE (IF actor_outputs[i].agent_id # critic_agents[j].agent_id
          THEN <<[actor_output |-> actor_outputs[i], critic_agent |-> critic_agents[j]]>>
          ELSE <<>>)
         \o CritiquePairs(actor_outputs, critic_agents, i, j + 1)

\* The cross product with the test of line 477 left out.
critique_tasks_with_self(actor_outputs, critic_agents) ==
    [k \in 1..(Len(actor_outputs) * Len(critic_agents)) |->
        [actor_output |-> actor_outputs[((k - 1) \div Len(critic_agents)) + 1],
         critic_agent |-> critic_agents[((k - 1) % Len(critic_agents)) + 1]]]

critique_tasks(actor_outputs, critic_agents) ==
    CritiquePairs(actor_outputs, critic_agents, 1, 1)

NoBatch ==
    [pc |-> "idle", actor_outputs |-> <<>>, critic_agents |-> <<>>,
     tasks |-> <<>>, valid_critiques |-> <<>>]

\* Lines 470-483, up to the await of gather.
batch_critique(actor_outputs, critic_agents, task) ==
    LET pairs == critique_tasks(actor_outputs, critic_agents)
        first == Len(calls)
    IN /\ batch.pc = "idle"
       /\ first + Len(pairs) <= MaxCalls
       /\ calls' = calls \o [k \in 1..Len(pairs) |->
                               Call("scheduled", pairs[k].actor_output,
                                    pairs[k].critic_agent, task, NoCritiques)]
       /\ batch' = [pc |-> "gathering", actor_outputs |-> actor_outputs,
                    critic_agents |-> critic_agents,
                    tasks |-> [k \in 1..Len(pairs) |-> first + k],
                    valid_critiques |-> <<>>]
       /\ UNCHANGED <<naga_conversation, current_iteration, critique_history,
                      returned, cleared>>

\* The event loop starts the next task of gather.
TaskStart(c) ==
    /\ calls[c].pc = "scheduled"
    /\ \A d \in 1..(c - 1) : calls[d].pc # "scheduled"
    /\ Begin(c, calls)
    /\ UNCHANGED <<naga_conversation, cleared, batch>>

\* Lines 486-491: a result that is an exception is dropped.
RECURSIVE ValidCritiques(_, _)
ValidCritiques(tasks, k) ==
    IF k > Len(tasks) THEN <<>>
    ELSE (IF calls[tasks[k]].pc = "raised" THEN <<>> ELSE <<calls[tasks[k]].result>>)
         \o ValidCritiques(tasks, k + 1)

\* Lines 483-494, from the answer of gather on.
BatchReturn ==
    /\ batch.pc = "gathering"
    /\ \A k \in 1..Len(batch.tasks) : calls[batch.tasks[k]].pc \in {"done", "raised"}
    /\ batch' = [batch EXCEPT !.pc = "done",
                              !.valid_critiques = ValidCritiques(batch.tasks, 1)]
    /\ UNCHANGED <<naga_conversation, current_iteration, critique_history, calls,
                   returned, cleared>>

(***************************************************************************)
(* The orchestrator's specification.  __init__ leaves the collaborator     *)
(* None when none is given and NagaConversation cannot be imported.        *)
(***************************************************************************)
Init ==
    /\ naga_conversation \in {"None", "conv"}
    /\ current_iteration = 0
    /\ critique_history = <<>>
    /\ calls = <<>>
    /\ returned = <<>>
    /\ cleared = {}
    /\ batch = NoBatch
    /\ norm = Idle
    /\ sat = Idle

Next ==
    \/ /\ \E t \in Tasks, p \in PreviousCritiques :
              critique_output(ActorOutput("a2"),
                              Agent("a1", "senior_quality_analyst", "tech_review_lead"),
                              t, p)
       /\ UNCHANGED <<norm, sat>>
    \/ /\ \E c \in 1..Len(calls), text \in Responses : LlmReturns(c, text)
       /\ UNCHANGED <<norm, sat>>
    \/ /\ \E c \in 1..Len(calls) : LlmRaises(c)
       /\ UNCHANGED <<norm, sat>>
    \/ /\ clear_history
       /\ UNCHANGED <<norm, sat>>

Spec == Init /\ [][Next]_vars

(***************************************************************************)
(* The orchestrator in the executions where clear_history is never called. *)
(***************************************************************************)
NextNoClear ==
    \/ /\ \E a \in Agents, t \in Tasks, p \in PreviousCritiques :
              critique_output(ActorOutput("a2"), a, t, p)
       /\ UNCHANGED <<norm, sat>>
    \/ /\ \E c \in 1..Len(calls), text \in Responses : LlmReturns(c, text)
       /\ UNCHANGED <<norm, sat>>
    \/ /\ \E c \in 1..Len(calls) : LlmRaises(c)
       /\ UNCHANGED <<norm, sat>>

SpecNoClear == Init /\ [][NextNoClear]_vars

(***************************************************************************)
(* The Batch Runner's specification: one batch_critique on an orchestrator *)
(* that nothing else calls.                                                *)
(***************************************************************************)
NextBatch ==
    \/ /\ \E aos \in SeqsUpTo(ActorOutputs, MaxBatch), cas \in SeqsUpTo(Agents, MaxBatch),
            t \in Tasks : batch_critique(aos, cas, t)
       /\ UNCHANGED <<norm, sat>>
    \/ /\ \E c \in 1..Len(calls) : TaskStart(c)
       /\ UNCHANGED <<norm, sat>>
    \/ /\ \E c \in 1..Len(calls), text \in Responses : LlmReturns(c, text)
       /\ UNCHANGED <<norm, sat>>
    \/ /\ \E c \in 1..Len(calls) : LlmRaises(c)
       /\ UNCHANGED <<norm, sat>>
    \/ /\ BatchReturn
       /\ UNCHANGED <<norm, sat>>

SpecBatch == Init /\ [][NextBatch]_vars

(***************************************************************************)
(* The Score Normalizer's specification.                                   *)
(***************************************************************************)
OrchestratorOff ==
    /\ naga_conversation = "None"
    /\ current_iteration = 0
    /\ critique_history = <<>>
    /\ calls = <<>>
    /\ returned = <<>>
    /\ cleared = {}
    /\ batch = NoBatch

InitNorm == NormInit /\ OrchestratorOff /\ sat = Idle

NextNorm == Parse /\ UNCHANGED <<orchVars, sat>>

SpecNorm == InitNorm /\ [][NextNorm]_vars

(***************************************************************************)
(* The Satisfaction Estimator's specification.                             *)
(***************************************************************************)
Score(dimension, score) == CriticScore(dimension, score, JStr(""), JArr(<<>>))

ScoreEntries ==
    {Score("quality", 60), Score("quality", 90), Score("quality", 150),
     Score("logic", 80), Score("logic", 20)}

Critique(dimension_scores) ==
    CriticOutput(<<"a1", 1>>, "a2", DefaultScore, BaseSatisfaction * Scale,
                 dimension_scores, JStr(""), JArr(<<>>), 1,
                 [critic_agent_name |-> "bob"])

\* None, no critique, one critique, or an earlier critique before it.
SatInputs(max) ==
    {[previous_critiques |-> p, current_scores |-> cur] :
        p \in {NoCritiques, Critiques(<<>>)}
              \cup {Critiques(<<Critique(d)>>) : d \in SeqsUpTo(ScoreEntries, max)}
              \cup {Critiques(<<Critique(<<Score("quality", 90), Score("logic", 20)>>),
                                Critique(d)>>) : d \in SeqsUpTo(ScoreEntries, max)},
        cur \in SeqsUpTo(ScoreEntries, max)}

InitSat ==
    /\ \E in \in SatInputs(MaxScores) :
           sat = [pc |-> "input", previous_critiques |-> in.previous_critiques,
                  current_scores |-> in.current_scores, out |-> 0]
    /\ OrchestratorOff
    /\ norm = Idle

Estimate ==
    /\ sat.pc = "input"
    /\ sat' = [sat EXCEPT !.pc = "done",
                          !.out = _calculate_satisfaction_score(sat.previous_critiques,
                                                                sat.current_scores)]

NextSat == Estimate /\ UNCHANGED <<orchVars, norm>>

SpecSat == InitSat /\ [][NextSat]_vars

(***************************************************************************)
(* Claims.                                                                 *)
(***************************************************************************)
Done == {c \in 1..Len(calls) : calls[c].pc = "done"}

AllReturned == \A c \in 1..Len(calls) : calls[c].pc = "done"

IsError(result) == MetaGet(result.metadata, "error", FALSE)

\* C1: on a fresh orchestrator, once every call started has returned, the
\* iterations of the results are exactly 1..N for the N calls, whatever the
\* interleaving of the calls was.
C1_IterationsAreOneToN ==
    (cleared = {} /\ AllReturned)
        => {calls[c].result.iteration : c \in 1..Len(calls)} = 1..Len(calls)

\* C2: every call puts its result in the ledger, on the failure path too: with
\* no clear, the ledger is as long as the counter once every call has
\* returned, and its last entry is the result returned last.
C2_EveryResultRecorded ==
    (cleared = {} /\ AllReturned)
        => /\ \A c \in Done : calls[c].recorded
           /\ Len(critique_history) = current_iteration
           /\ returned # <<>> =>
                  get_latest_critique = <<calls[returned[Len(returned)]].result>>

CannedOverall(agent_id) == IF agent_id = "a1" THEN 76 ELSE 73

CannedScores(agent_id) ==
    IF agent_id = "a1" THEN <<75, 82, 68, 70, 78, 85>> ELSE <<70, 75, 68, 72, 73, 80>>

IsCanned(result) ==
    /\ ~IsError(result)
    /\ result.overall_score = CannedOverall(result.critic_agent_id)
    /\ Len(result.dimension_scores) = Len(CriticDimension)
    /\ \A i \in 1..Len(CriticDimension) :
           /\ result.dimension_scores[i].dimension = CriticDimension[i]
           /\ result.dimension_scores[i].score = CannedScores(result.critic_agent_id)[i]

C4_FallbackForThatCallOnly ==
    /\ [](\A c \in Done :
             /\ calls[c].llm \in {"absent", "raised"} => IsCanned(calls[c].result)
             /\ calls[c].llm = "absent" <=>
                    (naga_conversation = "None" /\ calls[c].llm # "none"))
    /\ [][naga_conversation' = naga_conversation]_vars

C4_Witness ==
    /\ Len(calls) >= 2
    /\ calls[1].pc = "done" /\ calls[1].llm = "raised" /\ IsCanned(calls[1].result)
    /\ calls[2].pc = "done" /\ calls[2].llm = "returned" /\ ~IsCanned(calls[2].result)
    /\ returned = <<1, 2>>

\* What C5 says of one input: the last critique alone counts; a current score
\* counts if the last critique scores its dimension, against the first such
\* score.
LastCritique == sat.previous_critiques.list[Len(sat.previous_critiques.list)]

Matched ==
    {i \in 1..Len(sat.current_scores) :
        \E j \in 1..Len(LastCritique.dimension_scores) :
            LastCritique.dimension_scores[j].dimension = sat.current_scores[i].dimension}

PriorScore(i) ==
    LET js == {j \in 1..Len(LastCritique.dimension_scores) :
                  LastCritique.dimension_scores[j].dimension
                      = sat.current_scores[i].dimension}
    IN LastCritique.dimension_scores[CHOOSE j \in js : \A k \in js : j <= k].score

RECURSIVE DeltaSum(_)
DeltaSum(S) ==
    IF S = {} THEN 0
    ELSE LET i == CHOOSE x \in S : TRUE
         IN (sat.current_scores[i].score - PriorScore(i)) + DeltaSum(S \ {i})

\* C5: 7.0 with no prior critique, with no current score, and with no
\* dimension in common with the last prior critique; else 7.0 plus the mean
\* of the deltas, held to [0, 10].  With n deltas of sum t, the result r has
\* r = 0 if 7n + t <= 0, r = 10 if 7n + t >= 10n, and r * n = 7n + t between.
C5_SatisfactionIsClampedMeanDelta ==
    sat.pc = "done" =>
        /\ sat.out >= 0 /\ sat.out <= 100 * Scale
        /\ IF ~sat.previous_critiques.given \/ sat.previous_critiques.list = <<>>
              \/ sat.current_scores = <<>> \/ Matched = {}
           THEN sat.out = 70 * Scale
           ELSE LET n == Cardinality(Matched)
                    t == DeltaSum(Matched)
                IN /\ 70 * n + t <= 0 => sat.out = 0
                   /\ 70 * n + t >= 100 * n => sat.out = 100 * Scale
                   /\ (70 * n + t > 0 /\ 70 * n + t < 100 * n)
                          => sat.out * n = (70 * n + t) * Scale

\* Prior 8.0 and current 2.0 on the one matching dimension give 1.0, with an
\* earlier critique in the list that would give something else.
C5_Witness ==
    /\ sat.pc = "done"
    /\ Len(sat.previous_critiques.list) = 2
    /\ LastCritique.dimension_scores = <<Score("logic", 80)>>
    /\ sat.current_scores = <<Score("logic", 20)>>
    /\ sat.out = 10 * Scale

\* C6: a malformed response gives the default result: the six dimensions, one
\* score each, every score 7.0, and 7.0 overall.
C6_MalformedGivesDefault ==
    (norm.pc = "parsed" /\ norm.form \in MalformedForms)
        => /\ Len(norm.out.dimension_scores) = Len(CriticDimension)
           /\ \A i \in 1..Len(CriticDimension) :
                  /\ norm.out.dimension_scores[i].dimension = CriticDimension[i]
                  /\ norm.out.dimension_scores[i].score = 70
           /\ norm.out.overall_score = 70

\* The entries C7 counts: an object with a known dimension and a score that
\* is a number or spells one; and the entries it lets pass: an object whose
\* dimension is a string that names no dimension.
IsValidEntry(e) ==
    /\ e.k = "obj" /\ HasKey(e, "dimension") /\ HasKey(e, "score")
    /\ GetKey(e, "dimension").k = "str"
    /\ GetKey(e, "dimension").s \in DimensionValues
    /\ Float(GetKey(e, "score")).exc = "none"

IsUnknownEntry(e) ==
    /\ e.k = "obj" /\ HasKey(e, "dimension")
    /\ GetKey(e, "dimension").k = "str"
    /\ GetKey(e, "dimension").s \notin DimensionValues

RECURSIVE ValidEntries(_, _)
ValidEntries(el, i) ==
    IF i > Len(el) THEN <<>>
    ELSE (IF IsValidEntry(el[i])
          THEN <<[dimension |-> GetKey(el[i], "dimension").s,
                  score |-> Float(GetKey(el[i], "score")).n]>>
          ELSE <<>>) \o ValidEntries(el, i + 1)

C7_Covers(payload) ==
    /\ payload.k = "obj" /\ HasKey(payload, "dimension_scores")
    /\ GetKey(payload, "dimension_scores").k = "arr"
    /\ \A i \in 1..Len(GetKey(payload, "dimension_scores").el) :
           \/ IsValidEntry(GetKey(payload, "dimension_scores").el[i])
           \/ IsUnknownEntry(GetKey(payload, "dimension_scores").el[i])
    /\ Len(ValidEntries(GetKey(payload, "dimension_scores").el, 1))
           \in 1..Len(CriticDimension)

C7_Preserved ==
    LET want == ValidEntries(GetKey(norm.payload, "dimension_scores").el, 1)
    IN /\ Len(norm.out.dimension_scores) = Len(want)
       /\ \A i \in 1..Len(want) :
              /\ norm.out.dimension_scores[i].dimension = want[i].dimension
              /\ norm.out.dimension_scores[i].score = want[i].score

\* C7: a well-formed response with one to six entries of a known dimension
\* gives those entries, in order, scores kept, and no others, whatever the
\* other fields are; overall is 7.0 where overall_score is absent or is no
\* number.
C7_KnownEntriesPreserved ==
    (norm.pc = "parsed" /\ norm.form \in WellFormedForms /\ C7_Covers(norm.payload))
        => /\ C7_Preserved
           /\ (~HasKey(norm.payload, "overall_score")
               \/ Float(GetKey(norm.payload, "overall_score")).exc # "none")
                  => norm.out.overall_score = 70

\* C7 restricted to responses whose overall_score is absent or a number.
C7_KnownEntriesPreservedParsableOverall ==
    (norm.pc = "parsed" /\ norm.form \in WellFormedForms /\ C7_Covers(norm.payload)
     /\ (HasKey(norm.payload, "overall_score")
            => Float(GetKey(norm.payload, "overall_score")).exc = "none"))
        => /\ C7_Preserved
           /\ ~HasKey(norm.payload, "overall_score") => norm.out.overall_score = 70

\* The pairs C8 names, in the order of the cross product: content i with
\* evaluator j, of different identities.
BatchPairs ==
    {p \in (1..Len(batch.actor_outputs)) \X (1..Len(batch.critic_agents)) :
        batch.actor_outputs[p[1]].agent_id # batch.critic_agents[p[2]].agent_id}

Before(p, q) == p[1] < q[1] \/ (p[1] = q[1] /\ p[2] < q[2])

\* C8: the results of a batch are one for each pair of the cross product
\* whose identities differ, in the order of the cross product, and no result
\* has an evaluator judge its own content.
C8_BatchExcludesSelfPairsOnly ==
    batch.pc = "done" =>
        /\ Len(batch.valid_critiques) = Cardinality(BatchPairs)
        /\ \A p \in BatchPairs :
               LET k == Cardinality({q \in BatchPairs : Before(q, p)}) + 1
               IN /\ batch.valid_critiques[k].target_output_id
                         = <<batch.actor_outputs[p[1]].agent_id,
                             batch.actor_outputs[p[1]].iteration>>
                  /\ batch.valid_critiques[k].critic_agent_id
                         = batch.critic_agents[p[2]].agent_id
        /\ \A k \in 1..Len(batch.valid_critiques) :
               batch.valid_critiques[k].target_output_id[1]
                   # batch.valid_critiques[k].critic_agent_id

C8_Witness ==
    /\ batch.pc = "done"
    /\ Len(batch.actor_outputs) = 2 /\ Len(batch.critic_agents) = 2
    /\ Cardinality(BatchPairs) = 2
    /\ Len(batch.valid_critiques) = 2
    /\ batch.valid_critiques[1].iteration = 2

\* C9: no result of a call made before the most recent clear_history is in
\* the ledger, and the first call made after it returns iteration 1.
C9_ClearStartsAfresh ==
    \A c \in 1..Len(calls) :
        /\ c \in cleared => ~calls[c].recorded
        /\ (cleared # {} /\ c \notin cleared /\ (c - 1) \in cleared
            /\ calls[c].pc = "done")
               => calls[c].result.iteration = 1

InRange(score) == score >= 0 /\ score <= 100

ScoresInRange(result) ==
    /\ InRange(result.overall_score)
    /\ \A i \in 1..Len(result.dimension_scores) :
           InRange(result.dimension_scores[i].score)

\* C10: every result returned or recorded has its overall score and each of
\* its dimension scores in [0, 10].
C10_ScoresInRange ==
    /\ \A c \in Done : ScoresInRange(calls[c].result)
    /\ \A i \in 1..Len(critique_history) : ScoresInRange(critique_history[i])

(***************************************************************************)
(* The statistics of the ledger.                                           *)
(***************************************************************************)
AverageKeys == {"average_overall_score", "average_satisfaction_score",
                "average_critique_time"}

CountKeys == {"successful_critiques", "failed_critiques"}

ErrorEntries ==
    {i \in 1..Len(critique_history) :
        MetaGet(critique_history[i].metadata, "error", FALSE) = TRUE}

\* The part of C11 about a ledger that holds results.
StatisticsCountTheLedger ==
    \A s \in {get_critique_statistics} :
        critique_history # <<>> =>
            /\ s.total_critiques = Len(critique_history)
            /\ s.total_critiques = s.successful_critiques + s.failed_critiques
            /\ s.failed_critiques = Cardinality(ErrorEntries)

\* C11: on an empty ledger statistics reports total_critiques 0, the three
\* averages (overall score, satisfaction score, elapsed time) as 0 and the
\* successful and failed counts as 0; on a ledger that holds results
\* total_critiques is its length and the sum of the successful and failed
\* counts, and failed counts the entries whose metadata has error true.
C11_StatisticsZeroedOnEmptyLedger ==
    /\ \A s \in {get_critique_statistics} :
           critique_history = <<>> =>
               /\ s.total_critiques = 0
               /\ \A k \in AverageKeys : k \in DOMAIN s /\ s[k].num = 0
               /\ \A k \in CountKeys : k \in DOMAIN s /\ s[k] = 0
    /\ StatisticsCountTheLedger

\* C11 for the keys that statistics reports on an empty ledger.
C11_ReportedKeysZeroedOnEmptyLedger ==
    /\ \A s \in {get_critique_statistics} :
           critique_history = <<>> =>
               /\ s.total_critiques = 0
               /\ \A k \in AverageKeys \cap DOMAIN s : s[k].num = 0
               /\ \A k \in CountKeys \cap DOMAIN s : s[k] = 0
               /\ DOMAIN s \cap (AverageKeys \cup CountKeys) =
                      {"average_overall_score", "average_satisfaction_score"}
    /\ StatisticsCountTheLedger

(***************************************************************************)
(* The ledger and the counter where clear_history is never called.         *)
(***************************************************************************)
LedgerIterations == [i \in 1..Len(critique_history) |-> critique_history[i].iteration]

\* No call has run while another was suspended: the counter counts the
\* calls started, so a call that ended found the counter as its own
\* increment left it, and a call that is suspended is the last one started.
CallsNeverOverlapped ==
    \A c \in 1..Len(calls) :
        /\ calls[c].pc = "done" => calls[c].result.iteration = calls[c].incremented
        /\ calls[c].pc = "awaiting" => c = Len(calls)

C12_LedgerInvariant ==
    /\ Len(critique_history) <= current_iteration
    /\ \A i \in 1..Len(critique_history) :
           LedgerIterations[i] >= 1 /\ LedgerIterations[i] <= current_iteration
    /\ \A i, j \in 1..Len(critique_history) :
           i < j => LedgerIterations[i] <= LedgerIterations[j]
    /\ CallsNeverOverlapped =>
           \A i, j \in 1..Len(critique_history) :
               i < j => LedgerIterations[i] < LedgerIterations[j]

\* C12: where clear_history is never called, under every interleaving of
\* the calls, the ledger is never longer than the counter, the counter never
\* decreases, every recorded iteration is between 1 and the counter, and the
\* iterations along the ledger never decrease, and increase strictly where
\* the calls never overlapped.
C12_LedgerFollowsCounter ==
    /\ []C12_LedgerInvariant
    /\ [][current_iteration' >= current_iteration]_vars

\* Two calls that overlapped and are both recorded, with the same iteration.
C12_Witness ==
    /\ Len(critique_history) = 2
    /\ ~CallsNeverOverlapped
    /\ LedgerIterations = <<2, 2>>
    /\ current_iteration = 2
    /\ cleared = {}

\* Two calls one after the other, both recorded.
C12_WitnessSequential ==
    /\ CallsNeverOverlapped
    /\ LedgerIterations = <<1, 2>>
    /\ naga_conversation = "conv"

====
